---- MODULE Spec2Model ----
(***************************************************************************)
(* Clickmesh chat API (src/server.js): an Express application that relays  *)
(* chat messages to a completion provider and keeps a per-session history  *)
(* in an in-memory Map.                                                    *)
(*                                                                         *)
(* Strings are modelled by their shape: a run of leading white space, a    *)
(* core that neither starts nor ends with white space (named by `tag',     *)
(* `len' characters long) and a run of trailing white space.  The empty    *)
(* string is the string with no core and no white space.  Header values    *)
(* and identifiers that are only ever compared are plain TLA+ strings,     *)
(* with "" standing for an absent (undefined) or empty value: both are     *)
(* falsy in the source.                                                    *)
(***************************************************************************)
EXTENDS Integers, Sequences, FiniteSets, TLC

VARIABLES env, sessions, hits, pending, resp

vars == <<env, sessions, hits, pending, resp>>

-----------------------------------------------------------------------------
(* Bounds of the model *)

\* number of requests that may await the completion provider at once
MaxInFlight == 2

\* requests one client may send beyond the limiter's budget within a window
HitSlack == 2

\* requests one client may send within a window in the history scenarios
HistHits == 3

\* requests received in total in the concurrency scenario
RaceHits == 3

\* requests the second client may send within a window
OtherHits == 2

\* requests to a limiter window in the long conversations
LongHits == 1

-----------------------------------------------------------------------------
(* Program constants *)

\* rateLimit({ max: 20 })
RateMax == 20

\* history.slice(-12)
HistoryWindow == 12

\* text.length > 2000
MaxMessageLength == 2000

-----------------------------------------------------------------------------
(* Strings *)

Str(lead, tag, len, trail) ==
    [lead |-> lead, tag |-> tag, len |-> len, trail |-> trail]

Lit(tag, len) == Str(0, tag, len, 0)

EmptyStr == Str(0, "", 0, 0)

\* String.prototype.length
StrLength(s) == s.lead + s.len + s.trail

\* String.prototype.trim
StrTrim(s) == Str(0, s.tag, s.len, 0)

\* truthiness of a string value
Truthy(s) == StrLength(s) > 0

\* a request field that may be undefined
Undefined == [defined |-> FALSE, val |-> EmptyStr]

Val(s) == [defined |-> TRUE, val |-> s]

-----------------------------------------------------------------------------
(* Fixed texts of the program *)

MsgNoWidgetToken == Lit("Falta configurar WIDGET_TOKEN en el servidor.", 45)
MsgUnauthorized == Lit("No autorizado.", 14)
MsgOriginNotAllowed == Lit("Origen no permitido.", 20)
MsgNoApiKey == Lit("Falta configurar OPENAI_API_KEY en el servidor.", 47)
MsgEmpty == Lit("Escribe un mensaje para poder ayudarte.", 39)
MsgTooLong ==
    Lit("El mensaje es demasiado largo. Resumelo un poco, por favor.", 59)
MsgFallback == Lit("No he podido responder ahora mismo.", 35)
MsgRetry ==
    Lit("Ha ocurrido un error. Intentalo de nuevo en unos segundos.", 58)
MsgTooMany == Lit("Too many requests, please try again later.", 42)
MsgOk == Lit("OK", 2)

\* systemPrompt()
systemPrompt == Lit("Eres el asistente de la web de Clickmesh ...", 1000)

-----------------------------------------------------------------------------
(* Origin allow-list *)

defaultAllowed ==
    {"https://automatizacionesbilbao.es", "https://www.automatizacionesbilbao.es"}

\* ALLOWED_ORIGINS is not set: the default pair is the allow-list
allowedOrigins == defaultAllowed

isAllowedOrigin(origin) == origin # "" /\ origin \in allowedOrigins

\* An Error object: its message split at the place startsWith("CORS:") looks
\* at, and the HTTP status the framework's final handler answers it with.
Err(prefix, rest, status) == [prefix |-> prefix, rest |-> rest, status |-> status]

NoErr == Err("", "", 0)

\* the origin callback admitting a request without Origin header
corsOriginPermissive(origin) ==
    IF origin = "" THEN NoErr
    ELSE IF isAllowedOrigin(origin) THEN NoErr
    ELSE Err("CORS:", " origin not allowed", 500)

\* the origin callback handed to cors(): the error it passes on, or NoErr
corsOrigin(origin) ==
    IF origin = "" THEN Err("CORS:", " missing origin", 500)
    ELSE IF isAllowedOrigin(origin) THEN NoErr
    ELSE Err("CORS:", " origin not allowed", 500)

\* express.json({ limit: "16kb" }): the error the body parser raises, or NoErr
jsonParser(body) ==
    CASE body.kind = "toolarge" -> Err("reque", "st entity too large", 413)
      [] body.kind = "malformed" -> Err("Unexp", "ected token", 400)
      [] OTHER -> NoErr

-----------------------------------------------------------------------------
(* Requests and responses *)

\* an HTTP response: status, whether the body is the JSON object {reply, ...},
\* the reply text and the sessionId member ("" when the body has none)
Response(status, json, reply, sessionId) ==
    [status |-> status, json |-> json, reply |-> reply, sessionId |-> sessionId]

\* no response: the middleware called next()
NextMw == Response(0, FALSE, EmptyStr, "")

Body(kind, message, sessionId) ==
    [kind |-> kind, message |-> message, sessionId |-> sessionId]

\* a POST /api/chat request: the client address the limiter keys on, the
\* Origin and X-Widget-Token headers and the body
Request(client, origin, token, body) ==
    [method |-> "POST", path |-> "/api/chat", client |-> client,
     origin |-> origin, token |-> token, body |-> body]

\* a GET /health request
HealthRequest(client, origin, token, body) ==
    [method |-> "GET", path |-> "/health", client |-> client,
     origin |-> origin, token |-> token, body |-> body]

NoRequest == Request("", "", "", Body("json", Undefined, ""))

\* the error middleware of the application, followed by the framework's
\* final handler for the errors it passes on with next(err)
errorHandler(err) ==
    IF err.prefix = "CORS:"
    THEN Response(403, TRUE, MsgOriginNotAllowed, "")
    ELSE Response(err.status, FALSE, EmptyStr, "")

\* the limiter refusing from the max-th request on
rateLimitedFromMax(totalHits) == totalHits >= RateMax

\* express-rate-limit: the request is refused when the hits of its client in
\* the current window, this one included, exceed max
rateLimited(totalHits) == totalHits > RateMax

\* the token check treating an unset WIDGET_TOKEN as "no secret required"
requireWidgetTokenOptional(expected, provided) ==
    IF expected = ""
    THEN NextMw
    ELSE IF provided = "" \/ provided # expected
    THEN Response(401, TRUE, MsgUnauthorized, "")
    ELSE NextMw

\* requireWidgetToken: the response it sends, or NextMw
requireWidgetToken(expected, provided) ==
    IF expected = ""
    THEN Response(500, TRUE, MsgNoWidgetToken, "")
    ELSE IF provided = "" \/ provided # expected
    THEN Response(401, TRUE, MsgUnauthorized, "")
    ELSE NextMw

\* String(message || "").trim()
textOf(message) ==
    StrTrim(IF message.defined /\ Truthy(message.val) THEN message.val ELSE EmptyStr)

\* the length check refusing a text of exactly the maximum length
tooLongFromMax(text) == StrLength(text) >= MaxMessageLength

\* text.length > 2000
tooLong(text) == StrLength(text) > MaxMessageLength

\* the checks of the route handler that precede the session lookup
handlerChecks(e, req) ==
    IF ~isAllowedOrigin(req.origin)
    THEN Response(403, TRUE, MsgOriginNotAllowed, "")
    ELSE IF e.OPENAI_API_KEY = ""
    THEN Response(500, TRUE, MsgNoApiKey, "")
    ELSE IF ~Truthy(textOf(req.body.message))
    THEN Response(400, TRUE, MsgEmpty, "")
    ELSE IF tooLong(textOf(req.body.message))
    THEN Response(400, TRUE, MsgTooLong, "")
    ELSE NextMw

\* the middleware registered ahead of the limiter: body parser, then CORS
beforeLimiter(req) ==
    IF jsonParser(req.body) # NoErr THEN errorHandler(jsonParser(req.body))
    ELSE IF corsOrigin(req.origin) # NoErr THEN errorHandler(corsOrigin(req.origin))
    ELSE NextMw

\* what follows the limiter: requireWidgetToken, then the route handler
afterLimiter(e, req) ==
    IF requireWidgetToken(e.WIDGET_TOKEN, req.token) # NextMw
    THEN requireWidgetToken(e.WIDGET_TOKEN, req.token)
    ELSE handlerChecks(e, req)

-----------------------------------------------------------------------------
(* Session history *)

Turn(role, content) == [role |-> role, content |-> content]

\* sessions.get(sid) || []
sessionsGet(map, sid) == IF sid \in DOMAIN map THEN map[sid] ELSE <<>>

\* sessions.set(sid, value)
sessionsSet(map, sid, value) ==
    [s \in DOMAIN map \cup {sid} |-> IF s = sid THEN value ELSE map[s]]

\* a window of one turn less, history.slice(-11)
trimHistoryOdd(history) ==
    IF Len(history) > HistoryWindow - 1
    THEN SubSeq(history, Len(history) - HistoryWindow + 2, Len(history))
    ELSE history

\* the window taken from the front of the history, history.slice(0, 12)
trimHistoryHead(history) ==
    IF Len(history) > HistoryWindow THEN SubSeq(history, 1, HistoryWindow) ELSE history

\* history.slice(-12)
trimHistory(history) ==
    IF Len(history) > HistoryWindow
    THEN SubSeq(history, Len(history) - HistoryWindow + 1, Len(history))
    ELSE history

\* the message list handed to client.chat.completions.create
buildMessages(trimmedHistory, text) ==
    <<Turn("system", systemPrompt)>> \o trimmedHistory \o <<Turn("user", text)>>

\* the fallback decided on the content before it is trimmed
replyOfUntrimmedTest(content) ==
    IF content.defined /\ Truthy(content.val)
    THEN StrTrim(content.val)
    ELSE MsgFallback

\* completion.choices?.[0]?.message?.content?.trim() || fallback
replyOf(content) ==
    IF content.defined /\ Truthy(StrTrim(content.val))
    THEN StrTrim(content.val)
    ELSE MsgFallback

\* the two new turns stored with the reply ahead of the message
newHistoryReplyFirst(trimmedHistory, text, reply) ==
    trimmedHistory \o <<Turn("assistant", reply), Turn("user", text)>>

\* the array handed to sessions.set
newHistory(trimmedHistory, text, reply) ==
    trimmedHistory \o <<Turn("user", text), Turn("assistant", reply)>>

-----------------------------------------------------------------------------
(* State *)

\* env:      process.env, the two settings the handlers read
\* sessions: the Map from session identifier to history
\* hits:     the limiter's store, hits per client address in the current window
\* pending:  the handler invocations suspended at the await of the provider call
\* resp:     the exchange completed last: the request, what the server saw of
\*           it and the response sent

Slots == 1 .. MaxInFlight

Clients == {"c1", "c2"}

\* a suspended invocation: the request, the limiter's count for it and the
\* locals sid, text, history, trimmedHistory and messages of the handler
Invocation(req, hit, sid, text, history) ==
    [active |-> TRUE, req |-> req, hit |-> hit, sid |-> sid, text |-> text,
     history |-> history, trimmedHistory |-> trimHistory(history),
     messages |-> buildMessages(trimHistory(history), text)]

Idle ==
    [active |-> FALSE, req |-> NoRequest, hit |-> 0, sid |-> "", text |-> EmptyStr,
     history |-> <<>>, trimmedHistory |-> <<>>, messages |-> <<>>]

\* a completed exchange.  exhausted: the client's budget was used up when the
\* request arrived; hit: the limiter's count for it (0: it never reached the
\* limiter); provider: "none" when the provider was not invoked, else how its
\* call ended ("resolved", "rejected"); content: the content of the first
\* choice of the completion it resolved with; history: what the handler read
\* from the Map; prior: what the Map held for sid just before the response
Exchange(req, exhausted, hit, res, provider, content, sid, text, history, prior) ==
    [req |-> req, exhausted |-> exhausted, hit |-> hit, res |-> res,
     provider |-> provider, content |-> content, sid |-> sid, text |-> text,
     history |-> history, prior |-> prior]

NoExchange ==
    Exchange(NoRequest, FALSE, 0, NextMw, "none", Undefined, "", EmptyStr, <<>>, <<>>)

Init ==
    /\ env \in [WIDGET_TOKEN : {"", "secret"}, OPENAI_API_KEY : {"", "sk"}]
    /\ sessions = [s \in {} |-> <<>>]
    /\ hits = [c \in Clients |-> 0]
    /\ pending = [k \in Slots |-> Idle]
    /\ resp = NoExchange

-----------------------------------------------------------------------------
(* Actions *)

\* the request is answered before the provider is called
Reject(req, hit, res) ==
    /\ resp' = Exchange(req, hits[req.client] >= RateMax, hit, res, "none",
                        Undefined, "", EmptyStr, <<>>, <<>>)
    /\ UNCHANGED <<sessions, pending>>

\* uuidv4(): an identifier no session and no suspended invocation uses
uuidv4(pool) ==
    pool \ (DOMAIN sessions \cup {pending[j].sid : j \in Slots})

\* one fixed identifier for every request that names no session
sidOfShared(sessionId, pool) == IF sessionId # "" THEN {sessionId} ELSE {"anonymous"}

\* const sid = sessionId || uuidv4()
sidOf(sessionId, pool) == IF sessionId # "" THEN {sessionId} ELSE uuidv4(pool)

\* the lookup creating the entry of a session it does not find
AdmitCreatingEntry(req, hit, S, pool) ==
    \E k \in S, sid \in sidOf(req.body.sessionId, pool) :
        /\ ~pending[k].active
        /\ \A j \in S : j < k => pending[j].active
        /\ pending' = [pending EXCEPT ![k] =
               Invocation(req, hit, sid, textOf(req.body.message),
                          sessionsGet(sessions, sid))]
        /\ sessions' = sessionsSet(sessions, sid, sessionsGet(sessions, sid))
        /\ UNCHANGED resp

\* the handler reads the session, assembles the prompt and suspends at the
\* await of client.chat.completions.create
Admit(req, hit, S, pool) ==
    \E k \in S, sid \in sidOf(req.body.sessionId, pool) :
        /\ ~pending[k].active
        /\ \A j \in S : j < k => pending[j].active
        /\ pending' = [pending EXCEPT ![k] =
               Invocation(req, hit, sid, textOf(req.body.message),
                          sessionsGet(sessions, sid))]
        /\ UNCHANGED <<sessions, resp>>

\* POST /api/chat arrives: the middleware chain and the handler up to the await
Receive(req, S, cap, pool) ==
    /\ IF beforeLimiter(req) # NextMw
       THEN Reject(req, 0, beforeLimiter(req)) /\ UNCHANGED hits
       ELSE /\ hits[req.client] < cap[req.client]
            /\ hits' = [hits EXCEPT ![req.client] = @ + 1]
            /\ IF rateLimited(hits[req.client] + 1)
               THEN Reject(req, hits[req.client] + 1,
                           Response(429, FALSE, MsgTooMany, ""))
               ELSE IF afterLimiter(env, req) # NextMw
               THEN Reject(req, hits[req.client] + 1, afterLimiter(env, req))
               ELSE Admit(req, hits[req.client] + 1, S, pool)
    /\ UNCHANGED env

\* the write based on the history the Map holds when the provider answers
CompleteOnCurrent(k, content) ==
    /\ pending[k].active
    /\ sessions' = sessionsSet(sessions, pending[k].sid,
           newHistory(trimHistory(sessionsGet(sessions, pending[k].sid)),
                      pending[k].text, replyOf(content)))
    /\ resp' = Exchange(pending[k].req, pending[k].hit > RateMax, pending[k].hit,
                        Response(200, TRUE, replyOf(content), pending[k].sid),
                        "resolved", content, pending[k].sid, pending[k].text,
                        pending[k].history, sessionsGet(sessions, pending[k].sid))
    /\ pending' = [pending EXCEPT ![k] = Idle]
    /\ UNCHANGED <<env, hits>>

\* the provider call resolves: the reply is normalised, the session is
\* stored and the success response is sent
Complete(k, content) ==
    /\ pending[k].active
    /\ sessions' = sessionsSet(sessions, pending[k].sid,
           newHistory(pending[k].trimmedHistory, pending[k].text, replyOf(content)))
    /\ resp' = Exchange(pending[k].req, pending[k].hit > RateMax, pending[k].hit,
                        Response(200, TRUE, replyOf(content), pending[k].sid),
                        "resolved", content, pending[k].sid, pending[k].text,
                        pending[k].history,
                        sessionsGet(sessions, pending[k].sid))
    /\ pending' = [pending EXCEPT ![k] = Idle]
    /\ UNCHANGED <<env, hits>>

\* the catch clause keeping the user turn of the failed request
FailStoringUserTurn(k) ==
    /\ pending[k].active
    /\ sessions' = sessionsSet(sessions, pending[k].sid,
           pending[k].trimmedHistory \o <<Turn("user", pending[k].text)>>)
    /\ resp' = Exchange(pending[k].req, pending[k].hit > RateMax, pending[k].hit,
                        Response(500, TRUE, MsgRetry, ""),
                        "rejected", Undefined, pending[k].sid, pending[k].text,
                        pending[k].history, sessionsGet(sessions, pending[k].sid))
    /\ pending' = [pending EXCEPT ![k] = Idle]
    /\ UNCHANGED <<env, hits>>

\* the provider call rejects, or the completion cannot be read: the catch
\* clause answers
Fail(k) ==
    /\ pending[k].active
    /\ resp' = Exchange(pending[k].req, pending[k].hit > RateMax, pending[k].hit,
                        Response(500, TRUE, MsgRetry, ""),
                        "rejected", Undefined, pending[k].sid, pending[k].text,
                        pending[k].history,
                        sessionsGet(sessions, pending[k].sid))
    /\ pending' = [pending EXCEPT ![k] = Idle]
    /\ UNCHANGED <<env, sessions, hits>>

\* GET /health arrives: the body parser, then the route; neither the CORS
\* middleware of /api nor the limiter of /api/chat is on its path
Health(req) ==
    /\ IF jsonParser(req.body) # NoErr
       THEN Reject(req, 0, errorHandler(jsonParser(req.body)))
       ELSE Reject(req, 0, Response(200, FALSE, MsgOk, ""))
    /\ UNCHANGED <<env, hits>>

\* the limiter's window of a client ends
WindowReset(c) ==
    /\ hits[c] > 0
    /\ hits' = [hits EXCEPT ![c] = 0]
    /\ UNCHANGED <<env, sessions, pending, resp>>

-----------------------------------------------------------------------------
(* Inputs *)

Allowed == "https://automatizacionesbilbao.es"

Origins == {"", Allowed, "https://evil.example"}

Tokens == {"", "secret", "wrong"}

\* " aaa...a": 2000 characters after one blank
Msg2000 == Val(Str(1, "a", MaxMessageLength, 0))

Msg2001 == Val(Str(0, "a", MaxMessageLength + 1, 0))

MsgBlank == Val(Str(2, "", 0, 0))

MsgHola == Val(Str(0, "Hola", 4, 1))

MsgServicios == Val(Str(0, "Que servicios ofreceis?", 23, 0))

Bodies(messages, sids) ==
    {Body("malformed", Undefined, ""), Body("toolarge", Undefined, "")}
        \cup {Body("json", m, s) : m \in messages, s \in sids}

Requests(clients, origins, tokens, bodies) ==
    {Request(c, o, t, b) : c \in clients, o \in origins, t \in tokens, b \in bodies}

Good(clients, messages, sids) ==
    {Request(c, Allowed, "secret", Body("json", m, s)) :
        c \in clients, m \in messages, s \in sids}

ContentHi == Val(Str(1, "Hola, dime.", 11, 1))

ContentBlank == Val(Str(1, "", 0, 0))

ContentAbsent == Undefined

\* one request with every check passed, per client, message and session
GoodReqs(clients, messages, sids) ==
    Requests(clients, {Allowed}, {"secret"}, {Body("json", m, sd) : m \in messages, sd \in sids})

\* Guards: one client, every combination of headers with a well-formed and a
\* malformed body, and every message shape with good headers; each admitted
\* request opens a session of its own
GuardReqs ==
    Requests({"c1"}, Origins, Tokens,
             {Body("malformed", Undefined, ""), Body("json", MsgHola, "")})
      \cup Requests({"c1"}, {Allowed}, {"secret"}, {Body("toolarge", Undefined, "")})
      \cup GoodReqs({"c1"}, {Undefined, MsgBlank, MsgHola, Msg2000, Msg2001}, {""})

\* probes of the health endpoint: without and with headers, without a body
\* and with one that is not JSON
HealthReqs ==
    {HealthRequest("c1", o, t, b) :
        o \in {"", "https://evil.example"}, t \in {"", "wrong"},
        b \in {Body("none", Undefined, ""), Body("malformed", Undefined, "")}}

Next ==
    \/ \E req \in GuardReqs :
          Receive(req, {1}, [c \in Clients |-> HistHits], {"g1", "g2"})
    \/ \E req \in HealthReqs : Health(req)
    \/ \E k \in {1}, content \in {ContentHi, ContentAbsent, ContentBlank} :
          Complete(k, content)
    \/ \E k \in {1} : Fail(k)
    \/ \E c \in Clients : WindowReset(c)

Spec == Init /\ [][Next]_vars

\* History: one client talking on one session, one invocation at a time
HistReqs ==
    GoodReqs({"c1"}, {MsgHola, MsgServicios}, {"s1"})
      \cup Requests({"c1"}, {Allowed}, {"wrong"}, {Body("json", MsgHola, "s1")})

NextHist ==
    \/ \E req \in HistReqs :
          Receive(req, {1}, [c \in Clients |-> HistHits], {})
    \/ \E k \in {1} : Complete(k, ContentHi)
    \/ \E k \in {1} : Fail(k)
    \/ \E c \in Clients : WindowReset(c)

SpecHist == Init /\ [][NextHist]_vars

\* Rate limit: two clients, a good request and one with a wrong token
RateReqs ==
    GoodReqs(Clients, {MsgHola}, {"s1"})
      \cup Requests(Clients, {Allowed}, {"wrong"}, {Body("json", MsgHola, "s1")})

RateCap == [c \in Clients |-> IF c = "c1" THEN RateMax + HitSlack ELSE OtherHits]

NextRate ==
    \/ \E req \in RateReqs : Receive(req, {1}, RateCap, {})
    \/ \E k \in {1} : Complete(k, ContentHi)
    \/ \E k \in {1} : Fail(k)
    \/ \E c \in Clients : WindowReset(c)

SpecRate == Init /\ [][NextRate]_vars

\* Concurrency: several invocations in flight, on one named session and on
\* fresh ones, within one window of the limiter
RaceReqs ==
    GoodReqs({"c1"}, {MsgHola, MsgServicios}, {"", "s1"})
      \cup Requests({"c1"}, {Allowed}, {"wrong"}, {Body("json", MsgHola, "s1")})
      \cup Requests({"c1"}, {"https://evil.example"}, {"secret"},
                    {Body("json", MsgHola, "s1")})
      \cup GoodReqs({"c1"}, {MsgBlank}, {"s1"})

NextRace ==
    \/ \E req \in RaceReqs :
          Receive(req, Slots, [c \in Clients |-> RaceHits], {"g1", "g2"})
    \/ \E k \in Slots : Complete(k, ContentHi)
    \/ \E k \in Slots : Fail(k)

SpecRace == Init /\ [][NextRace]_vars

\* Long conversations with overlap: several invocations in flight on one
\* session, every provider call answered, LongHits requests to a window of
\* the limiter and as many windows as it takes
LongReqs == GoodReqs({"c1"}, {MsgHola, MsgBlank, Msg2001}, {"s1"})

NextLong ==
    \/ \E req \in LongReqs :
          Receive(req, Slots, [c \in Clients |-> LongHits], {})
    \/ \E k \in Slots : Complete(k, ContentHi)
    \/ \E c \in Clients : WindowReset(c)

SpecLong == Init /\ [][NextLong]_vars

-----------------------------------------------------------------------------
(* Properties *)

\* a response to a POST /api/chat request has been sent
Responded == resp.res.status # 0 /\ resp.req.path = "/api/chat"

\* a response to a GET /health request has been sent
HealthResponded == resp.res.status # 0 /\ resp.req.path = "/health"

\* the X-Widget-Token header of the last request is missing or differs from
\* the configured WIDGET_TOKEN
TokenInvalid == resp.req.token = "" \/ resp.req.token # env.WIDGET_TOKEN

\* the Origin header of the last request is absent or not on the allow-list
OriginRefused == resp.req.origin = "" \/ resp.req.origin \notin allowedOrigins

\* C1: the history stored for every session identifier has at most 12 turns.
HistoryAtMostWindow ==
    \A s \in DOMAIN sessions : Len(sessions[s]) <= HistoryWindow

\* C2: with WIDGET_TOKEN configured, a request whose X-Widget-Token is missing
\* or wrong is answered 401 and the provider is not invoked, whatever its
\* origin, body and the state of the limiter's window.
InvalidTokenGets401 ==
    (Responded /\ env.WIDGET_TOKEN # "" /\ TokenInvalid)
        => (resp.res.status = 401 /\ resp.provider = "none")

\* C3: a request whose Origin is absent or not on the allow-list is answered
\* 403 and the provider is not invoked, whatever its token and body.
RefusedOriginGets403 ==
    (Responded /\ OriginRefused)
        => (resp.res.status = 403 /\ resp.provider = "none")


\* the n last elements of a sequence
LastTurns(h, n) == [i \in 1 .. n |-> h[Len(h) - n + i]]

\* the length of a request's message once trimmed (0 for a missing message)
TrimmedLength(req) ==
    IF req.body.message.defined THEN req.body.message.val.len ELSE 0

\* the request passes the origin, token and provider-credential checks
PassesHeaderChecks(req) ==
    /\ req.body.kind = "json"
    /\ req.origin \in allowedOrigins
    /\ env.WIDGET_TOKEN # "" /\ req.token = env.WIDGET_TOKEN
    /\ env.OPENAI_API_KEY # ""

\* C4: when the provider call of an invocation fails, the answer is 500 with
\* the generic retry message and the step leaves the sessions map as it was:
\* no turn of the request is stored and a generated identifier gets no entry.
UpstreamFailureKeepsSessions ==
    [][\A k \in Slots :
          (pending[k].active /\ ~pending'[k].active /\ resp'.provider = "rejected")
              => /\ resp'.res = Response(500, TRUE, MsgRetry, "")
                 /\ sessions' = sessions
                 /\ (pending[k].req.body.sessionId = ""
                        => pending[k].sid \notin DOMAIN sessions')]_vars

\* the provider failed for a request without a session identifier while
\* another session holds a history
UpstreamFailureSeen ==
    /\ resp.provider = "rejected"
    /\ resp.res.status = 500
    /\ resp.req.body.sessionId = ""
    /\ resp.sid \notin DOMAIN sessions
    /\ DOMAIN sessions # {}

\* C5: a successful request that read its history before another request on
\* the same session wrote stores the history it read plus its own exchange,
\* not what the Map held when it answered plus its own exchange: what was
\* written in between is overwritten.
LostUpdate ==
    (resp.res.status = 200 /\ resp.prior # resp.history
        /\ Len(resp.history) <= HistoryWindow)
        => LET own == <<Turn("user", resp.text),
                        Turn("assistant", resp.res.reply)>>
           IN /\ sessions[resp.sid] = resp.history \o own
              /\ sessions[resp.sid] # resp.prior \o own

\* two requests on one session both read the empty history and both
\* succeeded; the stored history holds the exchange of the second one only
LostUpdateSeen ==
    /\ resp.res.status = 200
    /\ resp.history = <<>>
    /\ Len(resp.prior) = 2
    /\ resp.prior[1].content # resp.text
    /\ sessions[resp.sid] =
          <<Turn("user", resp.text), Turn("assistant", resp.res.reply)>>

\* C6: the rejection of a request with a well-formed body is that of the
\* first failing check in the order origin, widget token, rate limit, payload.
FirstFailingCheckInSpecOrder ==
    (Responded /\ resp.req.body.kind = "json" /\ env.WIDGET_TOKEN # "")
        => IF OriginRefused THEN resp.res.status = 403
           ELSE IF TokenInvalid THEN resp.res.status = 401
           ELSE IF resp.exhausted THEN resp.res.status = 429
           ELSE IF TrimmedLength(resp.req) \notin 1 .. MaxMessageLength
                   /\ env.OPENAI_API_KEY # ""
           THEN resp.res.status = 400
           ELSE TRUE

\* a request the limiter counted within the budget is not answered 429 and one
\* counted beyond it is answered 429 without a provider call
WithinBudget ==
    /\ (Responded /\ resp.hit > 0)
          => IF resp.hit <= RateMax
             THEN resp.res.status # 429
             ELSE resp.res.status = 429 /\ resp.provider = "none"
    /\ \A k \in Slots : pending[k].active => pending[k].hit \in 1 .. RateMax

\* a step changes the count of a client only by ending its window or by
\* counting one request of that very client, which gets the new count
CountsPerClient ==
    \A c \in Clients :
        hits'[c] # hits[c]
            => \/ hits'[c] = 0
               \/ /\ hits'[c] = hits[c] + 1
                  /\ \A d \in Clients \ {c} : hits'[d] = hits[d]
                  /\ \/ resp'.req.client = c /\ resp'.hit = hits'[c]
                     \/ \E k \in Slots :
                           /\ ~pending[k].active /\ pending'[k].active
                           /\ pending'[k].req.client = c
                           /\ pending'[k].hit = hits'[c]

\* C7: per client, the first 20 requests the limiter counts in a window pass
\* on, every further one is answered 429 without a provider call, the count
\* starts again when the window ends, and the counts of clients are independent.
RateLimitBudget == []WithinBudget /\ [][CountsPerClient]_vars

\* client c1 got 429 for its 21st request, its window ended and its next
\* request was admitted, while the other client's count stayed its own
RateLimitSeen ==
    /\ resp.res.status = 429
    /\ resp.req.client = "c1"
    /\ resp.hit = RateMax + 1
    /\ pending[1].active
    /\ pending[1].req.client = "c1"
    /\ pending[1].hit = 1
    /\ hits["c2"] = 1

\* what the length of the trimmed message decides for a request that passed
\* the other checks
LengthDecides ==
    /\ (Responded /\ PassesHeaderChecks(resp.req) /\ resp.hit \in 1 .. RateMax)
          => IF TrimmedLength(resp.req) \in 1 .. MaxMessageLength
             THEN resp.provider # "none"
             ELSE resp.res.status = 400 /\ resp.provider = "none"
    /\ \A k \in Slots :
          pending[k].active
              => TrimmedLength(pending[k].req) \in 1 .. MaxMessageLength

\* C8: of the requests that pass the other checks, those whose trimmed message
\* has 1 to 2000 characters reach the provider, those with 0 or more than 2000
\* are answered 400 without a provider call, and a 400 leaves the sessions map
\* unchanged.
MessageLengthBounds ==
    []LengthDecides /\ [][resp'.res.status = 400 => sessions' = sessions]_vars

\* a message of 2000 characters behind a blank was answered successfully
MessageOf2000Accepted ==
    /\ resp.res.status = 200
    /\ StrLength(resp.req.body.message.val) = MaxMessageLength + 1
    /\ StrLength(resp.text) = MaxMessageLength

\* C9: the sessions map changes only in the step that answers an invocation
\* whose provider call resolved, with status 200, and only at the entry of
\* that invocation's session identifier.
OnlyWritePath ==
    [][sessions' # sessions
          => \E k \in Slots :
                /\ pending[k].active /\ ~pending'[k].active
                /\ resp'.provider = "resolved"
                /\ resp'.res.status = 200
                /\ DOMAIN sessions' = DOMAIN sessions \cup {pending[k].sid}
                /\ \A s \in DOMAIN sessions \ {pending[k].sid} :
                      sessions'[s] = sessions[s]]_vars

\* two sessions are stored and the last request was answered successfully
TwoSessionsSeen ==
    /\ Cardinality(DOMAIN sessions) >= 2
    /\ resp.res.status = 200

\* C10: the message list of an invocation is one system message, then the at
\* most 12 last turns of the history stored for its session identifier when
\* it is read, in stored order, then the user turn with the trimmed message.
PromptAssembly ==
    [][\A k \in Slots :
          (~pending[k].active /\ pending'[k].active)
              => LET p == pending'[k]
                     stored == IF p.sid \in DOMAIN sessions
                               THEN sessions[p.sid] ELSE <<>>
                     n == IF Len(stored) < HistoryWindow
                          THEN Len(stored) ELSE HistoryWindow
                     msg == p.req.body.message.val
                 IN /\ Len(p.messages) = n + 2
                    /\ p.messages[1] = Turn("system", systemPrompt)
                    /\ \A i \in 2 .. n + 2 : p.messages[i].role # "system"
                    /\ \A i \in 1 .. n : p.messages[1 + i] = LastTurns(stored, n)[i]
                    /\ p.messages[n + 2] =
                          Turn("user", Str(0, msg.tag, msg.len, 0))]_vars

\* an invocation read a history of 14 turns whose first exchange differs from
\* its second, and sent 12 of them
PromptWindowSeen ==
    /\ pending[1].active
    /\ Len(pending[1].history) = HistoryWindow + 2
    /\ pending[1].history[1] # pending[1].history[3]
    /\ Len(pending[1].messages) = HistoryWindow + 2


\* the last request was answered successfully
Succeeded == Responded /\ resp.res.status = 200

\* the successful response names the key its exchange is stored under: the
\* identifier the request supplied, or else one whose history was empty when
\* it was read and when it was written
SidOfSuccess ==
    Succeeded
        => /\ resp.res.sessionId # ""
           /\ resp.res.sessionId \in DOMAIN sessions
           /\ LET h == sessions[resp.res.sessionId]
              IN /\ Len(h) >= 2
                 /\ h[Len(h) - 1] = Turn("user", resp.text)
                 /\ h[Len(h)] = Turn("assistant", resp.res.reply)
           /\ IF resp.req.body.sessionId # ""
              THEN resp.res.sessionId = resp.req.body.sessionId
              ELSE resp.history = <<>> /\ resp.prior = <<>>

\* the identifier an invocation works on is the one supplied or else one that
\* is no key of the sessions map
SidOfInvocation ==
    \A k \in Slots :
        (~pending[k].active /\ pending'[k].active)
            => IF pending'[k].req.body.sessionId # ""
               THEN pending'[k].sid = pending'[k].req.body.sessionId
               ELSE /\ pending'[k].sid \notin DOMAIN sessions
                    /\ pending'[k].history = <<>>

\* C11: a successful response carries the supplied session identifier or,
\* when none was supplied, a generated one that was no key of the sessions
\* map; the new history is stored under the identifier returned, and a request
\* without identifier neither reads nor overwrites an existing history.
SessionIdentifier == []SidOfSuccess /\ [][SidOfInvocation]_vars

\* a request without session identifier succeeded under a generated one while
\* another generated session and the named one are stored
GeneratedSidSeen ==
    /\ Succeeded
    /\ resp.req.body.sessionId = ""
    /\ resp.res.sessionId \in {"g1", "g2"}
    /\ Cardinality(DOMAIN sessions) = 3


\* C12: with no WIDGET_TOKEN configured, every request that reaches the token
\* check (it passed the body parser, CORS and the limiter) is answered 500
\* with the configuration message whatever token it carries, no invocation is
\* ever suspended at the provider and the sessions map stays empty.
NoWidgetTokenNoService ==
    env.WIDGET_TOKEN = ""
        => /\ DOMAIN sessions = {}
           /\ \A k \in Slots : ~pending[k].active
           /\ resp.provider = "none"
           /\ (Responded /\ resp.hit \in 1 .. RateMax)
                 => resp.res = Response(500, TRUE, MsgNoWidgetToken, "")

\* without WIDGET_TOKEN, a request carrying the token "secret" reached the
\* token check and was answered 500
NoWidgetTokenSeen ==
    /\ env.WIDGET_TOKEN = ""
    /\ Responded
    /\ resp.hit > 0
    /\ resp.req.token = "secret"
    /\ resp.res.status = 500


\* C13: every request that is not answered successfully is answered with a
\* status and the JSON body {reply}.
FailuresAnsweredAsJsonReply ==
    (Responded /\ resp.res.status # 200)
        => resp.res.json /\ Truthy(resp.res.reply)

\* C14: GET /health is always answered 200 with the body "OK".
HealthAlwaysOk ==
    HealthResponded => resp.res = Response(200, FALSE, MsgOk, "")


\* C15: after a successful request on a session nothing else wrote meanwhile,
\* with H the history stored before: the stored history ends with the new
\* user turn followed by the new assistant turn, what precedes them is a
\* suffix of H in its order, and all of H when H has at most 10 turns.
SequentialAppend ==
    (Succeeded /\ resp.prior = resp.history)
        => LET H == resp.prior
               h == sessions[resp.sid]
               kept == Len(h) - 2
           IN /\ Len(h) >= 2
              /\ h[Len(h) - 1] = Turn("user", resp.text)
              /\ h[Len(h)] = Turn("assistant", resp.res.reply)
              /\ kept <= Len(H)
              /\ \A i \in 1 .. kept : h[i] = H[Len(H) - kept + i]
              /\ (Len(H) <= 10 => kept = Len(H))

\* "Hola" and then the question about services were answered on the fresh
\* session s1: four turns are stored, in request order
TwoSequentialRequestsSeen ==
    /\ Succeeded
    /\ Len(resp.prior) = 2
    /\ "s1" \in DOMAIN sessions
    /\ Len(sessions["s1"]) = 4
    /\ sessions["s1"][1] = Turn("user", Lit("Hola", 4))
    /\ sessions["s1"][2].role = "assistant"
    /\ sessions["s1"][3] = Turn("user", Lit("Que servicios ofreceis?", 23))
    /\ sessions["s1"][4].role = "assistant"


\* C16: the reply of a successful response is not empty and is the content of
\* the assistant turn stored with it; it is the fallback text when the
\* completion has no content or only white space; no stored assistant turn is
\* empty.
ReplyNeverEmpty ==
    /\ Succeeded
          => /\ Truthy(resp.res.reply)
             /\ sessions[resp.sid][Len(sessions[resp.sid])]
                   = Turn("assistant", resp.res.reply)
             /\ (~resp.content.defined \/ resp.content.val.len = 0)
                   => resp.res.reply = MsgFallback
             /\ (resp.content.defined /\ resp.content.val.len > 0)
                   => resp.res.reply
                         = Lit(resp.content.val.tag, resp.content.val.len)
    /\ \A s \in DOMAIN sessions :
          \A i \in 1 .. Len(sessions[s]) :
              sessions[s][i].role = "assistant"
                  => StrLength(sessions[s][i].content) > 0

\* a completion whose content is one blank was answered with the fallback
\* text, which is stored as the assistant turn
BlankCompletionSeen ==
    /\ Succeeded
    /\ resp.content = ContentBlank
    /\ resp.res.reply = MsgFallback
    /\ sessions[resp.sid][2] = Turn("assistant", MsgFallback)


\* C17: the CORS layer lets a request with a well-formed body through to the
\* limiter exactly when its Origin is on the allow-list (an absent Origin is
\* not), so every 403 is sent by the CORS layer, ahead of the limiter, and the
\* origin check of the route handler never answers.
OneOriginPolicy ==
    /\ (Responded /\ resp.req.body.kind = "json")
          => /\ (resp.hit = 0) <=> OriginRefused
             /\ resp.res.status = 403 => resp.hit = 0
    /\ \A k \in Slots :
          pending[k].active => pending[k].req.origin \in allowedOrigins

\* a request with a valid token and no Origin header was answered 403 ahead
\* of the limiter
MissingOriginRefusedSeen ==
    /\ Responded
    /\ resp.req.body.kind = "json"
    /\ resp.req.origin = ""
    /\ resp.req.token = "secret"
    /\ resp.res.status = 403
    /\ resp.hit = 0


\* C18: every stored history is non-empty, of even length, alternates user
\* and assistant turns starting with a user turn, and its user turns hold a
\* trimmed message of 1 to 2000 characters.
WellFormedHistories ==
    \A s \in DOMAIN sessions :
        /\ Len(sessions[s]) > 0
        /\ Len(sessions[s]) % 2 = 0
        /\ \A i \in 1 .. Len(sessions[s]) :
              IF i % 2 = 1
              THEN /\ sessions[s][i].role = "user"
                   /\ sessions[s][i].content.lead = 0
                   /\ sessions[s][i].content.trail = 0
                   /\ sessions[s][i].content.len \in 1 .. MaxMessageLength
              ELSE sessions[s][i].role = "assistant"

\* a request that read 12 turns stored its 14 turns over the 14 turns another
\* request had stored meanwhile
LongOverlapSeen ==
    /\ Succeeded
    /\ Len(resp.history) = HistoryWindow
    /\ Len(resp.prior) = HistoryWindow + 2
    /\ Len(sessions[resp.sid]) = HistoryWindow + 2

====
